---- MODULE Spec2Model ----
(***************************************************************************)
(* Model of aws/init.go of awless: the on-disk credential cache            *)
(* (FileCacheProvider), the session bootstrap (initAWSSession) and the two *)
(* start-up paths (InitServices, NewDriver).                               *)
(*                                                                         *)
(* The program is single-threaded and synchronous, so every exported       *)
(* operation is one atomic action.  The order of the calls made inside an  *)
(* operation is kept in last.trace, a sequence of events in program order. *)
(*                                                                         *)
(* Several processes that share one cache root are the subject of a second *)
(* specification, SpecConcurrent, in which Retrieve is taken one system    *)
(* call at a time.                                                         *)
(***************************************************************************)
EXTENDS Integers, Sequences, FiniteSets, TLC

(***************************************************************************)
(* Bounds                                                                  *)
(***************************************************************************)
\* number of operations performed in one run of the process
MaxCalls == 2

\* number of Retrieve calls started by the concurrent processes together
MaxRuns == 3

(***************************************************************************)
(* Strings.  A Go string is modelled as a sequence of characters over a    *)
(* small alphabet that contains every class the JSON codec distinguishes:  *)
(* plain characters, the two characters that need a backslash escape, a    *)
(* byte that is not valid UTF-8, and U+FFFD.                               *)
(***************************************************************************)
Quote == "\""

Backslash == "\\"

BadByte == "0xFF"

Replacement == "U+FFFD"

EscFFFD == "ufffd"

\* credentials.Value (aws-sdk-go): four string fields
Value(ak, sk, tok, prov) ==
    [AccessKeyID |-> ak, SecretAccessKey |-> sk, SessionToken |-> tok, ProviderName |-> prov]

\* var credValue credentials.Value : the zero value
ZeroValue == Value(<<>>, <<>>, <<>>, <<>>)

FieldNames == <<"AccessKeyID", "SecretAccessKey", "SessionToken", "ProviderName">>

\* the snapshots the underlying credential chain can produce in this model:
\* plain fields, fields with characters that JSON escapes, and a session
\* token holding a byte that is not valid UTF-8
Snapshots ==
    { Value(<<"A">>, <<"s">>, <<>>, <<"E">>),
      Value(<<Quote, "A">>, <<Backslash, "s">>, <<"t">>, <<"R">>),
      Value(<<"A">>, <<"s">>, <<BadByte>>, <<"E">>) }

(***************************************************************************)
(* encoding/json.  The file content is a sequence of tokens; a string      *)
(* token carries its escaped characters.                                   *)
(***************************************************************************)
Punct(p) == [t |-> p, v |-> <<>>]

Str(chars) == [t |-> "str", v |-> chars]

LBrace == Punct("{")

RBrace == Punct("}")

Colon == Punct(":")

Comma == Punct(",")

\* json.Marshal on a string: escape quote and backslash, replace an invalid
\* UTF-8 byte by the escape for U+FFFD
RECURSIVE EncodeString(_)
EncodeString(s) ==
    IF s = <<>> THEN <<>>
    ELSE LET c == Head(s)
             e == IF c = Quote THEN <<Backslash, Quote>>
                  ELSE IF c = Backslash THEN <<Backslash, Backslash>>
                  ELSE IF c = BadByte THEN <<Backslash, EscFFFD>>
                  ELSE <<c>>
         IN  e \o EncodeString(Tail(s))

\* the escaped characters of a JSON string literal are well formed
RECURSIVE ValidLiteral(_)
ValidLiteral(e) ==
    IF e = <<>> THEN TRUE
    ELSE IF Head(e) = Quote THEN FALSE
    ELSE IF Head(e) = Backslash
         THEN /\ Len(e) >= 2
              /\ e[2] \in {Quote, Backslash, EscFFFD}
              /\ ValidLiteral(SubSeq(e, 3, Len(e)))
    ELSE Head(e) # EscFFFD /\ ValidLiteral(Tail(e))

\* json.Unmarshal on a string literal: undo the escapes; a raw invalid byte
\* is replaced by U+FFFD
RECURSIVE DecodeString(_)
DecodeString(e) ==
    IF e = <<>> THEN <<>>
    ELSE IF Head(e) = Backslash
         THEN (IF e[2] = EscFFFD THEN <<Replacement>> ELSE <<e[2]>>)
              \o DecodeString(SubSeq(e, 3, Len(e)))
    ELSE (IF Head(e) = BadByte THEN <<Replacement>> ELSE <<Head(e)>>)
         \o DecodeString(Tail(e))

\* one member of the object: "name": "value"
Member(name, s) == <<Str(<<name>>), Colon, Str(EncodeString(s))>>

\* fault: an encoder that writes the field values without escaping them
MarshalDropsEscapes(v) ==
    <<LBrace>> \o <<Str(<<"AccessKeyID">>), Colon, Str(v.AccessKeyID)>> \o <<Comma>>
               \o <<Str(<<"SecretAccessKey">>), Colon, Str(v.SecretAccessKey)>> \o <<Comma>>
               \o <<Str(<<"SessionToken">>), Colon, Str(v.SessionToken)>> \o <<Comma>>
               \o <<Str(<<"ProviderName">>), Colon, Str(v.ProviderName)>> \o <<RBrace>>

\* json.Marshal(credValue): the four fields in declaration order
Marshal(v) ==
    <<LBrace>> \o Member("AccessKeyID", v.AccessKeyID) \o <<Comma>>
               \o Member("SecretAccessKey", v.SecretAccessKey) \o <<Comma>>
               \o Member("SessionToken", v.SessionToken) \o <<Comma>>
               \o Member("ProviderName", v.ProviderName) \o <<RBrace>>

\* number of members of an object of n tokens, or -1 if n fits no object
MemberCount(n) ==
    IF n = 2 THEN 0
    ELSE IF n >= 5 /\ (n - 1) % 4 = 0 THEN (n - 1) \div 4
    ELSE -1

\* the scanner of json.Unmarshal (checkValid): one JSON object whose members
\* are string : string
ValidJSON(c) ==
    LET m == MemberCount(Len(c))
    IN  /\ m >= 0
        /\ c[1] = LBrace
        /\ c[Len(c)] = RBrace
        /\ \A i \in 1..m :
             LET b == 2 + 4 * (i - 1)
             IN  /\ c[b].t = "str" /\ ValidLiteral(c[b].v)
                 /\ c[b + 1] = Colon
                 /\ c[b + 2].t = "str" /\ ValidLiteral(c[b + 2].v)
                 /\ (i < m => c[b + 3] = Comma)

\* the value of field name after decoding: the last member with that key,
\* the zero string when there is none
DecodeField(c, name) ==
    LET m == MemberCount(Len(c))
        hits == { i \in 1..m : DecodeString(c[2 + 4 * (i - 1)].v) = <<name>> }
    IN  IF hits = {} THEN <<>>
        ELSE LET i == CHOOSE j \in hits : \A k \in hits : k <= j
             IN  DecodeString(c[4 + 4 * (i - 1)].v)

\* json.Unmarshal(content, &credValue): (value, decode error)
Unmarshal(c) ==
    IF ValidJSON(c)
    THEN [val |-> Value(DecodeField(c, "AccessKeyID"), DecodeField(c, "SecretAccessKey"),
                        DecodeField(c, "SessionToken"), DecodeField(c, "ProviderName")),
          err |-> "nil"]
    ELSE [val |-> ZeroValue, err |-> "ErrDecode"]

(***************************************************************************)
(* The underlying credentials object f.Creds (credentials.Credentials of   *)
(* the SDK) and the provider chain behind it.                              *)
(***************************************************************************)
\* what the provider chain answers when it is asked
ChainOutcomes ==
    { [ok |-> TRUE, val |-> s, nested |-> {}] : s \in Snapshots }
    \cup { [ok |-> FALSE, val |-> ZeroValue, nested |-> n] :
             n \in { {}, {"EnvAccessKeyNotFound", "SharedCredsLoad"} } }

\* credentials.NewCredentials(...): nothing retrieved yet, forceRefresh set
FreshCreds == [expired |-> TRUE, val |-> ZeroValue]

\* f.Creds.Get(): ask the chain only when expired; keep what it returned
CredsGet(c, chain) ==
    IF ~c.expired THEN [val |-> c.val, err |-> "nil", nested |-> {}, creds |-> c]
    ELSE IF chain.ok
         THEN [val |-> chain.val, err |-> "nil", nested |-> {},
               creds |-> [expired |-> FALSE, val |-> chain.val]]
    ELSE [val |-> ZeroValue, err |-> "NoCredentialProviders", nested |-> chain.nested,
          creds |-> c]

(***************************************************************************)
(* The file system under the cache root: the credentials directory and the *)
(* file credentials/aws.tmp.                                               *)
(***************************************************************************)
\* no file at credPath
NoFile == <<Punct("ENOENT")>>

\* a file at credPath that os.Stat sees and ioutil.ReadFile cannot read
Unreadable == <<Punct("EACCES")>>

\* lengths at which a failing write can leave the file
TruncLens == {0, 6}

\* how ioutil.WriteFile can end: written, not opened, opened and cut short
WriteOutcomes ==
    {[kind |-> "ok", n |-> 0], [kind |-> "open", n |-> 0]}
    \cup {[kind |-> "partial", n |-> k] : k \in TruncLens}

\* The outcome of a call that an operation does not reach has no effect, so
\* it is enumerated only where it is reached.
SessionInputs(reach) == IF reach THEN BOOLEAN ELSE {TRUE}

MkdirInputs(reach, env, dir) == IF reach /\ env # "" /\ ~dir THEN BOOLEAN ELSE {TRUE}

ChainInputs(reach, env, file, c) ==
    IF reach /\ (env = "" \/ file = NoFile) /\ c.expired THEN ChainOutcomes
    ELSE {[ok |-> FALSE, val |-> ZeroValue, nested |-> {}]}

WriteInputs(reach, env, dir, file, mkdirOk, chain, c) ==
    IF reach /\ env # "" /\ file = NoFile /\ (dir \/ mkdirOk) /\ (chain.ok \/ ~c.expired)
    THEN WriteOutcomes
    ELSE {[kind |-> "open", n |-> 0]}

\* an event of the trace of an operation
Ev(e, d) == [e |-> e, d |-> d]

(***************************************************************************)
(* FileCacheProvider                                                       *)
(***************************************************************************)
\* what f.Creds.Get() returned to Retrieve, when Retrieve called it
NoGot == [called |-> FALSE, val |-> ZeroValue, err |-> "nil"]

Got(g) == [called |-> TRUE, val |-> g.val, err |-> g.err]

\* ioutil.WriteFile(credPath, content, 0600): the file afterwards and the error;
\* the file cannot be opened in a directory that does not exist
WriteFile(dir, file, content, wr) ==
    IF ~dir \/ wr.kind = "open" THEN [file |-> file, err |-> "ErrWrite"]
    ELSE IF wr.kind = "partial" THEN [file |-> SubSeq(content, 1, wr.n), err |-> "ErrWrite"]
    ELSE [file |-> content, err |-> "nil"]

\* fault: the snapshot is dropped when the write fails
WriteReturnDropsValue(credValue, werr) ==
    [val |-> IF werr = "nil" THEN credValue ELSE ZeroValue, err |-> werr]

\* line 175: return credValue, ioutil.WriteFile(...)
WriteReturn(credValue, werr) == [val |-> credValue, err |-> werr]

\* lines 170-175: got is what f.Creds.Get() returned, w what WriteFile did
RetrieveStore(got, w, dir, pre) ==
    [val |-> WriteReturn(got.val, w.err).val, err |-> WriteReturn(got.val, w.err).err,
     nested |-> {}, creds |-> got.creds, got |-> Got(got), dir |-> dir, file |-> w.file,
     trace |-> pre \o <<Ev("json.Marshal", "nil"), Ev("ioutil.WriteFile", w.err)>>]

\* lines 166-175: got is what f.Creds.Get() returned
RetrieveFetched(got, dir, file, wr, pre) ==
    IF got.err # "nil"
    THEN [val |-> got.val, err |-> got.err, nested |-> got.nested, creds |-> got.creds,
          got |-> Got(got), dir |-> dir, file |-> file,
          trace |-> pre \o <<Ev("fmt.Println", "get credentials"),
                             Ev("f.Creds.Get", got.err)>>]
    ELSE RetrieveStore(got, WriteFile(dir, file, Marshal(got.val), wr), dir,
                       pre \o <<Ev("fmt.Println", "get credentials"),
                                Ev("f.Creds.Get", got.err)>>)

\* Retrieve, lines 165-175: the cache file was not found
RetrieveMiss(c, dir, file, chain, wr, pre) ==
    RetrieveFetched(CredsGet(c, chain), dir, file, wr, pre)

\* fault: a cache file that does not decode is removed
RetrieveDecodedRemovesBadFile(c, dir, file, dec, pre) ==
    [val |-> dec.val, err |-> dec.err, nested |-> {}, creds |-> c,
     got |-> NoGot, dir |-> dir, file |-> IF dec.err = "nil" THEN file ELSE NoFile,
     trace |-> pre \o <<Ev("ioutil.ReadFile", "nil"), Ev("json.Unmarshal", dec.err),
                        Ev("fmt.Println", "credentials retrieved from file")>>]

\* lines 159-163: dec is what json.Unmarshal returned
RetrieveDecoded(c, dir, file, dec, pre) ==
    [val |-> dec.val, err |-> dec.err, nested |-> {}, creds |-> c,
     got |-> NoGot, dir |-> dir, file |-> file,
     trace |-> pre \o <<Ev("ioutil.ReadFile", "nil"), Ev("json.Unmarshal", dec.err),
                        Ev("fmt.Println", "credentials retrieved from file")>>]

\* fault: the error of json.Unmarshal is not returned
RetrieveHitSwallowsDecodeError(c, dir, file, pre) ==
    [val |-> ZeroValue,
     err |-> IF file = Unreadable THEN "ErrRead" ELSE "nil",
     nested |-> {}, creds |-> c, got |-> NoGot, dir |-> dir, file |-> file,
     trace |-> pre \o <<Ev("ioutil.ReadFile", IF file = Unreadable THEN "ErrRead" ELSE "nil")>>]

\* Retrieve, lines 153-164: os.Stat found the cache file
RetrieveHit(c, dir, file, pre) ==
    IF file = Unreadable
    THEN [val |-> ZeroValue, err |-> "ErrRead", nested |-> {}, creds |-> c,
          got |-> NoGot, dir |-> dir, file |-> file,
          trace |-> pre \o <<Ev("ioutil.ReadFile", "ErrRead")>>]
    ELSE RetrieveDecoded(c, dir, file, Unmarshal(file), pre)

\* fault: the cache is used even when __AWLESS_CACHE is unset
BypassNever(env) == FALSE

\* lines 142-143: awlessCache == ""
Bypass(env) == env = ""

\* line 144: return f.Creds.Get()
RetrieveBypass(got, env, dir, file) ==
    [val |-> got.val, err |-> got.err, nested |-> got.nested, creds |-> got.creds,
     got |-> Got(got), dir |-> dir, file |-> file,
     trace |-> <<Ev("os.Getenv", env), Ev("f.Creds.Get", got.err)>>]

\* lines 146-149: the trace up to the os.Stat of credPath; the directory is
\* created when it is missing
StatTrace(env, dir, mkdirOk) ==
    <<Ev("os.Getenv", env), Ev("os.Stat", "credFolder")>>
    \o (IF dir THEN <<>> ELSE <<Ev("os.MkdirAll", IF mkdirOk THEN "nil" ELSE "ErrMkdir")>>)
    \o <<Ev("os.Stat", "credPath")>>

\* func (f *FileCacheProvider) IsExpired() bool
IsExpired(c) == c.expired

\* fault: the cache file is used only while f.Creds is not expired
RetrieveChecksExpiry(env, c, dir, file, mkdirOk, chain, wr) ==
    IF Bypass(env)
    THEN RetrieveBypass(CredsGet(c, chain), env, dir, file)
    ELSE IF file # NoFile /\ ~IsExpired(c)
         THEN RetrieveHit(c, dir \/ mkdirOk, file, StatTrace(env, dir, mkdirOk))
    ELSE RetrieveMiss(c, dir \/ mkdirOk, file, chain, wr, StatTrace(env, dir, mkdirOk))

\* func (f *FileCacheProvider) Retrieve() (credentials.Value, error)
\*   env: value of __AWLESS_CACHE, c: f.Creds, dir/file: the file system,
\*   mkdirOk, chain, wr: what the directory creation, the provider chain and
\*   the file write do if this call reaches them
Retrieve(env, c, dir, file, mkdirOk, chain, wr) ==
    IF Bypass(env)
    THEN RetrieveBypass(CredsGet(c, chain), env, dir, file)
    ELSE IF file # NoFile
         THEN RetrieveHit(c, dir \/ mkdirOk, file, StatTrace(env, dir, mkdirOk))
    ELSE RetrieveMiss(c, dir \/ mkdirOk, file, chain, wr, StatTrace(env, dir, mkdirOk))

(***************************************************************************)
(* Sessions and services                                                   *)
(***************************************************************************)
Regions == {"", "not-a-real-region", "us-east-1"}

Profiles == {"default", "admin"}

\* awsconfig.IsValidRegion: membership in the list of known regions
ValidRegions == {"us-east-1"}

IsValidRegion(region) == region \in ValidRegions

\* the value of __AWLESS_CACHE when it is set
CacheRoot == "/cache"

\* a nil *session.Session
NoSession == [region |-> "", profile |-> "", http |-> "nil"]

\* fault: the session is built without the 2 second client
NewSessionNoTimeout(region, profile) ==
    [region |-> region, profile |-> profile, http |-> "Default"]

\* session.NewSessionWithOptions: region, profile and the 2 second client
NewSession(region, profile) == [region |-> region, profile |-> profile, http |-> "Timeout2s"]

\* the nine services, in the order InitServices and NewDriver build them
Kinds == <<"Access", "Infra", "Storage", "Messaging", "Dns", "Lambda", "Monitoring",
           "Cdn", "Cloudformation">>

\* the order in which InitServices registers them (indices into Kinds)
RegisterOrder == <<2, 1, 3, 4, 5, 6, 7, 8, 9>>

\* a nil cloud.Service
NilService == [kind |-> "nil", gen |-> 0, sess |-> NoSession]

\* NewAccess(sess, awsconf, log) ... NewCloudformation(sess, awsconf, log):
\* gen identifies the call that built the instance
NewService(kind, sess, gen) == [kind |-> kind, gen |-> gen, sess |-> sess]

\* Service.Name(): the declared name of the service
Name(svc) ==
    CASE svc.kind = "Access" -> "access"
      [] svc.kind = "Infra" -> "infra"
      [] svc.kind = "Storage" -> "storage"
      [] svc.kind = "Messaging" -> "messaging"
      [] svc.kind = "Dns" -> "dns"
      [] svc.kind = "Lambda" -> "lambda"
      [] svc.kind = "Monitoring" -> "monitoring"
      [] svc.kind = "Cdn" -> "cdn"
      [] svc.kind = "Cloudformation" -> "cloudformation"
      [] OTHER -> "nil"

\* the constructor calls of one start-up, as trace events
ConstructorEvents(sess) == [i \in 1..Len(Kinds) |-> Ev("New" \o Kinds[i], sess.http)]

(***************************************************************************)
(* func initAWSSession(region, profile string): session or error           *)
(*   sessOk: whether session.NewSessionWithOptions succeeds                *)
(***************************************************************************)
ErrCredentials == "Your AWS credentials seem undefined!"

\* fault: the error of the eager fetch is ignored
FetchFailedIgnored(r) == FALSE

\* line 126: the error of session.Config.Credentials.Get() is not nil
FetchFailed(r) == r.err # "nil"

\* line 118 dereferences the nil session before err is looked at
initPanic(dir, file) ==
    [sess |-> NoSession, err |-> "panic", panicked |-> TRUE, fetch |-> "none",
     val |-> ZeroValue, got |-> NoGot, creds |-> FreshCreds, dir |-> dir, file |-> file,
     nested |-> {},
     trace |-> <<Ev("session.NewSessionWithOptions", "ErrSession"),
                 Ev("panic", "nil pointer dereference")>>]

\* the trace of lines 112-126: r is what Retrieve returned to Credentials.Get()
initTrace(sess, r) ==
    <<Ev("session.NewSessionWithOptions", "nil"),
      Ev("credentials.NewCredentials", "FileCacheProvider"),
      Ev("session.Config.Credentials.Get", sess.http)>>
    \o r.trace \o <<Ev("Get.return", r.err)>>

\* fault: an error of the cache write does not fail the bootstrap
initValidateToleratesWriteError(sess, r) ==
    IF FetchFailed(r) /\ r.err # "ErrWrite"
    THEN [sess |-> NoSession, err |-> ErrCredentials, panicked |-> FALSE, fetch |-> r.err,
          val |-> r.val, got |-> r.got, creds |-> r.creds, dir |-> r.dir, file |-> r.file,
          nested |-> r.nested,
          trace |-> initTrace(sess, r) \o <<Ev("return", ErrCredentials)>>]
    ELSE [sess |-> [sess EXCEPT !.http = "Default"], err |-> "nil", panicked |-> FALSE,
          fetch |-> r.err, val |-> r.val, got |-> r.got, creds |-> r.creds, dir |-> r.dir,
          file |-> r.file, nested |-> {},
          trace |-> initTrace(sess, r) \o <<Ev("session.Config.HTTPClient", "Default"),
                                            Ev("return", "nil")>>]

\* lines 126-131: sess is the constructed session
initValidate(sess, r) ==
    IF FetchFailed(r)
    THEN [sess |-> NoSession, err |-> ErrCredentials, panicked |-> FALSE, fetch |-> r.err,
          val |-> r.val, got |-> r.got, creds |-> r.creds, dir |-> r.dir, file |-> r.file,
          nested |-> r.nested,
          trace |-> initTrace(sess, r) \o <<Ev("return", ErrCredentials)>>]
    ELSE [sess |-> [sess EXCEPT !.http = "Default"], err |-> "nil", panicked |-> FALSE,
          fetch |-> r.err, val |-> r.val, got |-> r.got, creds |-> r.creds, dir |-> r.dir,
          file |-> r.file, nested |-> {},
          trace |-> initTrace(sess, r) \o <<Ev("session.Config.HTTPClient", "Default"),
                                            Ev("return", "nil")>>]

initAWSSession(region, profile, sessOk, env, dir, file, mkdirOk, chain, wr) ==
    IF ~sessOk THEN initPanic(dir, file)
    ELSE initValidate(NewSession(region, profile),
                      Retrieve(env, FreshCreds, dir, file, mkdirOk, chain, wr))

(***************************************************************************)
(* State                                                                   *)
(***************************************************************************)
VARIABLES
    awlessCache,      \* the environment variable __AWLESS_CACHE ("" when unset)
    credFolder,       \* whether <cache root>/credentials exists
    credFile,         \* <cache root>/credentials/aws.tmp: NoFile, Unreadable or its content
    Creds,            \* f.Creds of the FileCacheProvider in use
    ServiceRegistry,  \* cloud.ServiceRegistry: name -> service
    Services,         \* the nine package-level service variables, by kind
    calls,            \* operations performed so far
    last,             \* the last operation: arguments, state before, results, trace
    panicked,         \* the process died of a run-time panic
    providerCalls,    \* history: calls of f.Creds.Get() made by Retrieve so far
    stored,           \* history: the snapshot a Retrieve obtained and wrote in full
    inits,            \* history: successful InitServices calls so far
    procs             \* SpecConcurrent: the processes sharing the cache root

vars == <<awlessCache, credFolder, credFile, Creds, ServiceRegistry, Services, calls,
          last, panicked, providerCalls, stored, inits, procs>>

\* the history of the calls that one run of Retrieve adds
History(r) ==
    /\ providerCalls' = providerCalls + (IF r.got.called THEN 1 ELSE 0)
    /\ stored' = IF \E i \in 1..Len(r.trace) : r.trace[i] = Ev("ioutil.WriteFile", "nil")
                 THEN [set |-> TRUE, val |-> r.val]
                 ELSE stored



KindSet == {Kinds[i] : i \in 1..Len(Kinds)}

\* the processes of SpecConcurrent
Procs == {1, 2}

\* a process that has its FileCacheProvider and has not called Retrieve yet:
\* pc is its place in Retrieve, val and err what its last Retrieve returned,
\* seen what has happened to it so far
NewProcess ==
    [pc |-> "idle", runs |-> 0, creds |-> FreshCreds, val |-> ZeroValue, err |-> "nil",
     seen |-> {}]

\* a nil driver.Driver
NoDriver == <<>>

\* the record kept in last: val, fetch and got are the value and the error
\* that Retrieve returned and what f.Creds.Get() returned to it, when the
\* operation ran Retrieve
Done(op, region, profile, val, err, fetch, got, nested, sess, driver, trace) ==
    [op |-> op, region |-> region, profile |-> profile,
     env |-> awlessCache, dirBefore |-> credFolder, fileBefore |-> credFile,
     credsBefore |-> Creds,
     val |-> val, err |-> err, fetch |-> fetch, got |-> got, nested |-> nested,
     sess |-> sess, driver |-> driver, trace |-> trace]

\* the files a previous run of the tool, or anything else, may have left
InitFiles ==
    {NoFile, Unreadable, <<LBrace, RBrace>>}
    \cup {Marshal(s) : s \in Snapshots}
    \cup {SubSeq(Marshal(Value(<<"A">>, <<"s">>, <<>>, <<"E">>)), 1, k) : k \in TruncLens}

Init ==
    /\ awlessCache \in {"", CacheRoot}
    /\ credFolder \in BOOLEAN
    /\ credFile \in IF credFolder THEN InitFiles ELSE {NoFile}
    /\ Creds = FreshCreds
    /\ ServiceRegistry = [n \in {} |-> NilService]
    /\ Services = [k \in KindSet |-> NilService]
    /\ calls = 0
    /\ panicked = FALSE
    /\ providerCalls = 0
    /\ stored = [set |-> FALSE, val |-> ZeroValue]
    /\ inits = 0
    /\ procs = [p \in Procs |-> NewProcess]
    /\ last = [op |-> "none", region |-> "", profile |-> "",
               env |-> awlessCache, dirBefore |-> credFolder, fileBefore |-> credFile,
               credsBefore |-> FreshCreds,
               val |-> ZeroValue, err |-> "nil", fetch |-> "none", got |-> NoGot,
               nested |-> {},
               sess |-> NoSession, driver |-> NoDriver, trace |-> <<>>]

(***************************************************************************)
(* Operations                                                              *)
(***************************************************************************)
\* a call of f.Retrieve() by a user of the credentials object
DoRetrieve ==
    \E mkdirOk \in MkdirInputs(TRUE, awlessCache, credFolder) :
    \E chain \in ChainInputs(TRUE, awlessCache, credFile, Creds) :
    \E wr \in WriteInputs(TRUE, awlessCache, credFolder, credFile, mkdirOk, chain, Creds) :
    \E r \in {Retrieve(awlessCache, Creds, credFolder, credFile, mkdirOk, chain, wr)} :
        /\ calls < MaxCalls /\ ~panicked
        /\ calls' = calls + 1
        /\ credFolder' = r.dir
        /\ credFile' = r.file
        /\ Creds' = r.creds
        /\ last' = Done("Retrieve", "", "", r.val, r.err, r.err, r.got, r.nested, NoSession,
                        NoDriver, r.trace)
        /\ History(r)
        /\ UNCHANGED <<awlessCache, ServiceRegistry, Services, panicked, inits, procs>>

\* a call of f.IsExpired()
DoIsExpired ==
    /\ calls < MaxCalls /\ ~panicked
    /\ calls' = calls + 1
    /\ last' = Done("IsExpired", "", "", ZeroValue, "nil",
                    IF IsExpired(Creds) THEN "expired" ELSE "fresh", NoGot, {}, NoSession,
                    NoDriver, <<Ev("f.Creds.IsExpired", "")>>)
    /\ UNCHANGED <<awlessCache, credFolder, credFile, Creds, ServiceRegistry, Services,
                   panicked, providerCalls, stored, inits, procs>>

\* the credentials held by f.Creds reach their expiry time
Expire ==
    /\ ~panicked
    /\ ~Creds.expired
    /\ Creds' = [Creds EXCEPT !.expired = TRUE]
    /\ UNCHANGED <<awlessCache, credFolder, credFile, ServiceRegistry, Services, calls,
                   last, panicked, providerCalls, stored, inits, procs>>

\* fault: an entry already in the registry is kept
PutKeepsExisting(reg, name, svc) ==
    [n \in DOMAIN reg \cup {name} |-> IF n \in DOMAIN reg THEN reg[n] ELSE svc]

\* cloud.ServiceRegistry[name] = svc
Put(reg, name, svc) ==
    [n \in DOMAIN reg \cup {name} |-> IF n = name THEN svc ELSE reg[n]]

\* lines 65-73: the nine assignments to the registry, in order
RECURSIVE Register(_, _, _)
Register(reg, svcs, i) ==
    IF i > Len(RegisterOrder) THEN reg
    ELSE LET svc == svcs[Kinds[RegisterOrder[i]]]
         IN  Register(Put(reg, Name(svc), svc), svcs, i + 1)

\* the state that a run of initAWSSession leaves behind
Booted(boot) ==
    /\ History(boot)
    /\ credFolder' = boot.dir
    /\ credFile' = boot.file
    /\ Creds' = IF boot.panicked THEN Creds ELSE boot.creds
    /\ panicked' = boot.panicked

\* fault: a failed bootstrap empties the registry
InitServicesWithResetsOnFailure(region, profile, boot, built) ==
    /\ Booted(boot)
    /\ IF boot.err # "nil"
       THEN /\ last' = Done("InitServices", region, profile, boot.val, boot.err, boot.fetch,
                            boot.got, boot.nested, NoSession, NoDriver, boot.trace)
            /\ ServiceRegistry' = [n \in {} |-> NilService]
            /\ UNCHANGED <<Services, inits>>
       ELSE /\ inits' = inits + 1
            /\ Services' = built
            /\ ServiceRegistry' = Register(ServiceRegistry, built, 1)
            /\ last' = Done("InitServices", region, profile, boot.val, "nil", boot.fetch,
                            boot.got, {}, boot.sess, NoDriver,
                            boot.trace \o ConstructorEvents(boot.sess))

\* InitServices, lines 50-75: boot is what initAWSSession did and returned
InitServicesWith(region, profile, boot, built) ==
    /\ Booted(boot)
    /\ IF boot.err # "nil"
       THEN /\ last' = Done("InitServices", region, profile, boot.val, boot.err, boot.fetch,
                            boot.got, boot.nested, NoSession, NoDriver, boot.trace)
            /\ UNCHANGED <<ServiceRegistry, Services, inits>>
       ELSE /\ inits' = inits + 1
            /\ Services' = built
            /\ ServiceRegistry' = Register(ServiceRegistry, built, 1)
            /\ last' = Done("InitServices", region, profile, boot.val, "nil", boot.fetch,
                            boot.got, {}, boot.sess, NoDriver,
                            boot.trace \o ConstructorEvents(boot.sess))

\* lines 55-63: the nine services built on the session
Build(sess, gen) == [k \in KindSet |-> NewService(k, sess, gen)]

\* func InitServices(conf map[string]interface{}, log *logger.Logger) error
\*   region, profile: awsconf.region(), awsconf.profile()
InitServices(region, profile, sessOk, mkdirOk, chain, wr) ==
    /\ calls < MaxCalls /\ ~panicked
    /\ calls' = calls + 1
    /\ UNCHANGED <<awlessCache, procs>>
    /\ IF region = ""
       THEN /\ last' = Done("InitServices", region, profile, ZeroValue, "ErrEmptyRegion",
                            "none", NoGot, {}, NoSession, NoDriver, <<>>)
            /\ UNCHANGED <<credFolder, credFile, Creds, ServiceRegistry, Services,
                           panicked, providerCalls, stored, inits>>
       ELSE \E boot \in {initAWSSession(region, profile, sessOk, awlessCache, credFolder,
                                        credFile, mkdirOk, chain, wr)} :
                InitServicesWith(region, profile, boot, Build(boot.sess, calls + 1))

DoInitServices ==
    \E region \in Regions, profile \in Profiles :
    \E sessOk \in SessionInputs(region # "") :
    \E mkdirOk \in MkdirInputs(sessOk /\ region # "", awlessCache, credFolder) :
    \E chain \in ChainInputs(sessOk /\ region # "", awlessCache, credFile, FreshCreds) :
    \E wr \in WriteInputs(sessOk /\ region # "", awlessCache, credFolder, credFile,
                          mkdirOk, chain, FreshCreds) :
        InitServices(region, profile, sessOk, mkdirOk, chain, wr)

\* fault: only the empty region is rejected
NewDriverRejectsEmptyOnly(region) == region = ""

\* line 79: !awsconfig.IsValidRegion(region)
NewDriverRejects(region) == ~IsValidRegion(region)

\* NewDriver, lines 83-108: boot is what initAWSSession did and returned
NewDriverWith(region, profile, boot, t0) ==
    /\ Booted(boot)
    /\ IF boot.err # "nil"
       THEN last' = Done("NewDriver", region, profile, boot.val, boot.err, boot.fetch,
                         boot.got, boot.nested, NoSession, NoDriver, t0 \o boot.trace)
       ELSE last' = Done("NewDriver", region, profile, boot.val, "nil", boot.fetch,
                         boot.got, {}, boot.sess, Kinds,
                         t0 \o boot.trace \o ConstructorEvents(boot.sess))

\* fault: NewDriver assigns the package-level service variables
NewDriverAssignsPackageVars(region, profile, sessOk, mkdirOk, chain, wr) ==
    /\ calls < MaxCalls /\ ~panicked
    /\ calls' = calls + 1
    /\ UNCHANGED <<awlessCache, ServiceRegistry, inits, procs>>
    /\ IF NewDriverRejects(region)
       THEN /\ last' = Done("NewDriver", region, profile, ZeroValue, "ErrInvalidRegion",
                            "none", NoGot, {}, NoSession, NoDriver,
                            <<Ev("awsconfig.IsValidRegion", region)>>)
            /\ UNCHANGED <<credFolder, credFile, Creds, Services, panicked, providerCalls,
                           stored>>
       ELSE \E boot \in {initAWSSession(region, profile, sessOk, awlessCache, credFolder,
                                        credFile, mkdirOk, chain, wr)} :
                /\ NewDriverWith(region, profile, boot,
                                 <<Ev("awsconfig.IsValidRegion", region)>>)
                /\ Services' = IF boot.err = "nil" THEN Build(boot.sess, calls + 1)
                               ELSE Services

\* func NewDriver(region, profile string, log ...*logger.Logger) (driver.Driver, error)
NewDriver(region, profile, sessOk, mkdirOk, chain, wr) ==
    /\ calls < MaxCalls /\ ~panicked
    /\ calls' = calls + 1
    /\ UNCHANGED <<awlessCache, ServiceRegistry, Services, inits, procs>>
    /\ IF NewDriverRejects(region)
       THEN /\ last' = Done("NewDriver", region, profile, ZeroValue, "ErrInvalidRegion",
                            "none", NoGot, {}, NoSession, NoDriver,
                            <<Ev("awsconfig.IsValidRegion", region)>>)
            /\ UNCHANGED <<credFolder, credFile, Creds, panicked, providerCalls, stored>>
       ELSE \E boot \in {initAWSSession(region, profile, sessOk, awlessCache, credFolder,
                                        credFile, mkdirOk, chain, wr)} :
                NewDriverWith(region, profile, boot,
                              <<Ev("awsconfig.IsValidRegion", region)>>)

DoNewDriver ==
    \E region \in Regions, profile \in Profiles :
    \E sessOk \in SessionInputs(~NewDriverRejects(region)) :
    \E mkdirOk \in MkdirInputs(sessOk /\ ~NewDriverRejects(region), awlessCache, credFolder) :
    \E chain \in ChainInputs(sessOk /\ ~NewDriverRejects(region), awlessCache, credFile,
                             FreshCreds) :
    \E wr \in WriteInputs(sessOk /\ ~NewDriverRejects(region), awlessCache, credFolder,
                          credFile, mkdirOk, chain, FreshCreds) :
        NewDriver(region, profile, sessOk, mkdirOk, chain, wr)

Next ==
    \/ DoRetrieve
    \/ DoIsExpired
    \/ Expire
    \/ DoInitServices
    \/ DoNewDriver

Spec == Init /\ [][Next]_vars

(***************************************************************************)
(* Concurrent processes.  Every process has its own FileCacheProvider and  *)
(* its own f.Creds; the processes share __AWLESS_CACHE, the credentials    *)
(* directory and the cache file.  One step is one system call of Retrieve, *)
(* or the call of f.Creds.Get(), together with the local code up to the    *)
(* next one.                                                               *)
(***************************************************************************)
\* the variables of the single process of Spec
processVars ==
    <<Creds, ServiceRegistry, Services, calls, last, panicked, providerCalls, stored, inits>>

TotalRuns == procs[1].runs + procs[2].runs

\* process p moves on inside Retrieve
Goto(p, pc) == [procs EXCEPT ![p].pc = pc]

\* Retrieve of process p returns (val, err)
Return(p, c, val, err, seen) ==
    [procs EXCEPT ![p] = [pc |-> "idle", runs |-> @.runs, creds |-> c, val |-> val,
                          err |-> err, seen |-> @.seen \cup seen]]

\* write(2) at offset 0: the bytes of chunk replace the first bytes of file
Overlay(file, chunk) == chunk \o SubSeq(file, Len(chunk) + 1, Len(file))

\* lines 142-143: p calls Retrieve, which reads the environment
Start(p) ==
    /\ procs[p].pc = "idle"
    /\ TotalRuns < MaxRuns
    /\ procs' = [procs EXCEPT ![p].pc = IF Bypass(awlessCache) THEN "bypass"
                                        ELSE "stat.folder",
                              ![p].runs = @ + 1]
    /\ UNCHANGED <<awlessCache, credFolder, credFile, processVars>>

\* line 144: return f.Creds.Get()
BypassGet(p) ==
    /\ procs[p].pc = "bypass"
    /\ \E chain \in ChainInputs(TRUE, "", NoFile, procs[p].creds) :
       \E g \in {CredsGet(procs[p].creds, chain)} :
           procs' = Return(p, g.creds, g.val, g.err, {})
    /\ UNCHANGED <<awlessCache, credFolder, credFile, processVars>>

\* line 147: os.Stat(credFolder)
StatFolder(p) ==
    /\ procs[p].pc = "stat.folder"
    /\ procs' = Goto(p, IF credFolder THEN "stat.path" ELSE "mkdir")
    /\ UNCHANGED <<awlessCache, credFolder, credFile, processVars>>

\* line 148: os.MkdirAll(credFolder, 0700), its result is dropped
MkdirAll(p) ==
    /\ procs[p].pc = "mkdir"
    /\ \E mkdirOk \in BOOLEAN : credFolder' = (credFolder \/ mkdirOk)
    /\ procs' = Goto(p, "stat.path")
    /\ UNCHANGED <<awlessCache, credFile, processVars>>

\* fault: the file is looked at under a lock held until the write is over
StatPathLocked(p) ==
    /\ procs[p].pc = "stat.path"
    /\ \A q \in Procs \ {p} : procs[q].pc \notin {"get", "open", "write"}
    /\ procs' = Goto(p, IF credFile # NoFile THEN "read" ELSE "get")
    /\ UNCHANGED <<awlessCache, credFolder, credFile, processVars>>

\* line 153: os.Stat(credPath)
StatPath(p) ==
    /\ procs[p].pc = "stat.path"
    /\ procs' = Goto(p, IF credFile # NoFile THEN "read" ELSE "get")
    /\ UNCHANGED <<awlessCache, credFolder, credFile, processVars>>

\* lines 155-163: ioutil.ReadFile(credPath) reads what the file holds now,
\* json.Unmarshal decodes it; a read is torn when another process has opened
\* the file for writing and not written it yet
ReadFile(p) ==
    /\ procs[p].pc = "read"
    /\ IF credFile = Unreadable
       THEN procs' = Return(p, procs[p].creds, ZeroValue, "ErrRead", {})
       ELSE \E dec \in {Unmarshal(credFile)} :
                procs' = Return(p, procs[p].creds, dec.val, dec.err,
                                IF \E q \in Procs \ {p} : procs[q].pc = "write"
                                THEN {"torn"} ELSE {})
    /\ UNCHANGED <<awlessCache, credFolder, credFile, processVars>>

\* lines 165-169: f.Creds.Get()
Get(p) ==
    /\ procs[p].pc = "get"
    /\ \E chain \in ChainInputs(TRUE, awlessCache, NoFile, procs[p].creds) :
       \E g \in {CredsGet(procs[p].creds, chain)} :
           procs' = IF g.err # "nil" THEN Return(p, g.creds, g.val, g.err, {})
                    ELSE [procs EXCEPT ![p].pc = "open", ![p].creds = g.creds]
    /\ UNCHANGED <<awlessCache, credFolder, credFile, processVars>>

\* line 175, ioutil.WriteFile: os.OpenFile(credPath, O_WRONLY|O_CREATE|O_TRUNC,
\* 0600) creates the file or empties the one that is there
OpenFile(p) ==
    /\ procs[p].pc = "open"
    /\ \E openOk \in BOOLEAN :
          IF credFolder /\ openOk
          THEN /\ credFile' = <<>>
               /\ procs' = Goto(p, "write")
          ELSE /\ credFile' = credFile
               /\ procs' = Return(p, procs[p].creds, procs[p].creds.val, "ErrWrite", {})
    /\ UNCHANGED <<awlessCache, credFolder, processVars>>

\* line 175, ioutil.WriteFile: f.Write(data) and f.Close(); the write is
\* complete or stops after wr.n tokens
Write(p) ==
    /\ procs[p].pc = "write"
    /\ \E wr \in WriteOutcomes \ {[kind |-> "open", n |-> 0]} :
          IF wr.kind = "ok"
          THEN /\ credFile' = Overlay(credFile, Marshal(procs[p].creds.val))
               /\ procs' = Return(p, procs[p].creds, procs[p].creds.val, "nil", {"wrote"})
          ELSE /\ credFile' = Overlay(credFile,
                                      SubSeq(Marshal(procs[p].creds.val), 1, wr.n))
               /\ procs' = Return(p, procs[p].creds, procs[p].creds.val, "ErrWrite", {})
    /\ UNCHANGED <<awlessCache, credFolder, processVars>>

\* the next step of a Retrieve that p is in
Step(p) ==
    \/ BypassGet(p)
    \/ StatFolder(p)
    \/ MkdirAll(p)
    \/ StatPath(p)
    \/ ReadFile(p)
    \/ Get(p)
    \/ OpenFile(p)
    \/ Write(p)

\* the processes start with no cache file, or with one they cannot read
ConcurrentInit == Init /\ credFile \in {NoFile, Unreadable}

ConcurrentNext == \E p \in Procs : Start(p) \/ Step(p)

SpecConcurrent == ConcurrentInit /\ [][ConcurrentNext]_vars

(***************************************************************************)
(* Vocabulary of the properties                                            *)
(***************************************************************************)
Has(tr, e) == \E i \in 1..Len(tr) : tr[i].e = e

Count(tr, e) == Cardinality({i \in 1..Len(tr) : tr[i].e = e})

\* ev occurs in tr before position i
Before(tr, ev, i) == \E j \in 1..(i - 1) : tr[j] = ev

FsCalls == {"os.Stat", "os.MkdirAll", "ioutil.ReadFile", "ioutil.WriteFile"}

ConstructorNames == {"New" \o Kinds[k] : k \in 1..Len(Kinds)}

\* the last operation ran FileCacheProvider.Retrieve
RanRetrieve == Has(last.trace, "os.Getenv")

\* the last operation is one of the two start-up paths
Startup == last.op \in {"InitServices", "NewDriver"}

\* the last operation wrote the cache file in full
Wrote == \E i \in 1..Len(last.trace) : last.trace[i] = Ev("ioutil.WriteFile", "nil")

\* s with every byte that is not valid UTF-8 replaced by U+FFFD
Coerce(s) == [i \in 1..Len(s) |-> IF s[i] = BadByte THEN Replacement ELSE s[i]]

CoerceValue(v) ==
    Value(Coerce(v.AccessKeyID), Coerce(v.SecretAccessKey), Coerce(v.SessionToken),
          Coerce(v.ProviderName))

\* a cache file cut short: a proper prefix of an encoded snapshot
Corrupt(file) ==
    \E v \in Snapshots : \E k \in 0..(Len(Marshal(v)) - 1) : file = SubSeq(Marshal(v), 1, k)

\* the bootstrap phase that an event of the trace enters, "-" for none
PhaseOf(ev) ==
    IF ev = Ev("session.NewSessionWithOptions", "nil") THEN "Unvalidated"
    ELSE IF ev.e = "session.Config.Credentials.Get" THEN "Validating"
    ELSE IF ev = Ev("Get.return", "nil") THEN "Validated"
    ELSE IF ev.e = "Get.return" THEN "Failed"
    ELSE "-"

\* the phases that a trace goes through, in order
Keep(p) == p # "-"

Phases(tr) == SelectSeq([i \in 1..Len(tr) |-> PhaseOf(tr[i])], Keep)

\* the states f.Creds can be in
CredsStates == {FreshCreds} \cup {[expired |-> e, val |-> s] : e \in BOOLEAN, s \in Snapshots}

\* the cache file is there, readable and valid JSON
ValidFile(file) == file \notin {NoFile, Unreadable} /\ Unmarshal(file).err = "nil"

(***************************************************************************)
(* C1  Bypass: a Retrieve that runs with __AWLESS_CACHE unset calls         *)
(* f.Creds.Get() exactly once, returns exactly the value and the error it   *)
(* got from it, makes no file system call and leaves directory and file as  *)
(* they were, whatever happened before.                                     *)
(***************************************************************************)
C1_Bypass ==
    (RanRetrieve /\ last.env = "") =>
        /\ Count(last.trace, "f.Creds.Get") = 1
        /\ last.got.called
        /\ last.val = last.got.val
        /\ last.fetch = last.got.err
        /\ \A i \in 1..Len(last.trace) : last.trace[i].e \notin FsCalls
        /\ credFolder = last.dirBefore
        /\ credFile = last.fileBefore

\* a bypassing Retrieve as second operation, with a cache file on disk
C1_Witness ==
    /\ last.op = "Retrieve" /\ last.env = "" /\ calls = 2
    /\ last.fileBefore \notin {NoFile, Unreadable}
    /\ last.err = "nil" /\ last.val \in Snapshots

(***************************************************************************)
(* C2  Round trip, as claimed: once a Retrieve has obtained S and written   *)
(* it, every later Retrieve with the cache root set returns a snapshot      *)
(* equal to S in all four fields without calling the underlying provider,   *)
(* and over any sequence of Retrieve calls the underlying provider is       *)
(* invoked at most once.                                                    *)
(***************************************************************************)
C2_RoundTripAsClaimed ==
    /\ (RanRetrieve /\ last.env # "" /\ stored.set /\ ~Wrote) =>
            /\ last.val = stored.val
            /\ ~last.got.called
    /\ (awlessCache # "" => providerCalls <= 1)

(***************************************************************************)
(* C2  Round trip, amended: once a Retrieve has obtained S and written it,  *)
(* every later Retrieve with the cache root set succeeds without calling    *)
(* the underlying provider and returns S with each byte that is not valid   *)
(* UTF-8 replaced by U+FFFD, hence S itself when S is valid UTF-8.          *)
(***************************************************************************)
C2_RoundTrip ==
    (RanRetrieve /\ last.env # "" /\ stored.set /\ ~Wrote) =>
        /\ last.fetch = "nil"
        /\ last.val = CoerceValue(stored.val)
        /\ (\A i \in 1..4 : BadByte \notin
                {stored.val[FieldNames[i]][j] : j \in 1..Len(stored.val[FieldNames[i]])})
              => last.val = stored.val
        /\ ~last.got.called
        /\ ~Has(last.trace, "f.Creds.Get")

\* a Retrieve served from the file that an earlier Retrieve wrote, for a
\* snapshot whose fields need escaping
C2_Witness ==
    /\ last.op = "Retrieve" /\ last.env # "" /\ stored.set /\ ~Wrote
    /\ stored.val.AccessKeyID = <<Quote, "A">>
    /\ last.val = stored.val

(***************************************************************************)
(* C3  Fail fast on bad region: a start-up whose region is empty or fails   *)
(* the static validity check returns an error without constructing a        *)
(* session, retrieving credentials, touching the cache or the network.      *)
(***************************************************************************)
C3_FailFastOnBadRegion ==
    (Startup /\ ~IsValidRegion(last.region)) =>
        /\ last.err # "nil"
        /\ last.sess = NoSession
        /\ \A i \in 1..Len(last.trace) : last.trace[i].e = "awsconfig.IsValidRegion"

(***************************************************************************)
(* C4  Authenticated session: in every start-up the bootstrap goes          *)
(* Unvalidated -> Validating -> Validated or Failed; a service constructor  *)
(* is invoked only after the eager credential fetch has returned without    *)
(* error; after Failed no constructor is invoked and no session is          *)
(* returned.                                                                *)
(***************************************************************************)
C4_AuthenticatedSession ==
    LET tr == last.trace
        ph == Phases(tr)
    IN  /\ ph \in { <<>>, <<"Unvalidated", "Validating", "Validated">>,
                     <<"Unvalidated", "Validating", "Failed">> }
        /\ \A i \in 1..Len(tr) :
              tr[i].e \in ConstructorNames => Before(tr, Ev("Get.return", "nil"), i)
        /\ (ph # <<>> /\ ph[Len(ph)] = "Failed") =>
              /\ \A i \in 1..Len(tr) : tr[i].e \notin ConstructorNames
              /\ last.sess = NoSession
              /\ last.err # "nil"
        /\ last.sess # NoSession => (ph # <<>> /\ ph[Len(ph)] = "Validated")
        /\ (last.op = "InitServices" /\ last.err = "nil") =>
              \A k \in KindSet : Services[k].sess = last.sess

\* a start-up that built the nine services after a successful fetch
C4_Witness ==
    /\ Startup /\ last.err = "nil" /\ last.sess # NoSession
    /\ \A n \in ConstructorNames : Count(last.trace, n) = 1

(***************************************************************************)
(* C5  Corrupt cache file: with the cache root set and a cache file cut     *)
(* short (not valid JSON), Retrieve returns a decode error, does not call   *)
(* the underlying provider and leaves the file as it is.                    *)
(***************************************************************************)
C5_CorruptCacheFile ==
    (RanRetrieve /\ last.env # "" /\ Corrupt(last.fileBefore)) =>
        /\ last.fetch = "ErrDecode"
        /\ ~last.got.called
        /\ ~Has(last.trace, "f.Creds.Get")
        /\ ~Has(last.trace, "ioutil.WriteFile")
        /\ credFile = last.fileBefore

\* the second of two Retrieve calls on the same corrupt file
C5_Witness ==
    /\ last.op = "Retrieve" /\ last.env # "" /\ calls = 2
    /\ Corrupt(last.fileBefore) /\ Len(last.fileBefore) > 0
    /\ last.err = "ErrDecode"

(***************************************************************************)
(* C6  Transport swap: the eager fetch runs with the 2 second client; the   *)
(* default client is installed only after that fetch returned without       *)
(* error; a returned session has the default client; a failed bootstrap     *)
(* never installs it.                                                       *)
(***************************************************************************)
C6_TransportSwap ==
    LET tr == last.trace
    IN  /\ \A i \in 1..Len(tr) :
              tr[i].e = "session.Config.Credentials.Get" => tr[i].d = "Timeout2s"
        /\ \A i \in 1..Len(tr) :
              tr[i].e = "session.Config.HTTPClient" =>
                  /\ tr[i].d = "Default"
                  /\ Before(tr, Ev("Get.return", "nil"), i)
        /\ last.sess # NoSession =>
              /\ last.sess.http = "Default"
              /\ Has(tr, "session.Config.HTTPClient")
        /\ (Startup /\ last.err # "nil") => ~Has(tr, "session.Config.HTTPClient")

\* a successful bootstrap: fetch under the 2 second client, then the swap
C6_Witness ==
    /\ Startup /\ last.err = "nil"
    /\ Has(last.trace, "session.Config.Credentials.Get")
    /\ last.sess.http = "Default"

(***************************************************************************)
(* C7  Registry overwrite: after a second successful InitServices the       *)
(* registry holds exactly nine entries, each under the declared name of a   *)
(* service built by that second call, and nothing built by the first call.  *)
(***************************************************************************)
C7_RegistryOverwrite ==
    (last.op = "InitServices" /\ last.err = "nil" /\ inits >= 2) =>
        /\ Cardinality(DOMAIN ServiceRegistry) = 9
        /\ \A n \in DOMAIN ServiceRegistry :
              /\ ServiceRegistry[n].gen = calls
              /\ Name(ServiceRegistry[n]) = n
              /\ ServiceRegistry[n] = Services[ServiceRegistry[n].kind]

\* two successful InitServices calls in a row
C7_Witness ==
    /\ last.op = "InitServices" /\ last.err = "nil" /\ inits = 2
    /\ DOMAIN ServiceRegistry # {}

(***************************************************************************)
(* C8  Cache write failure: with the cache root set, no cache file and the  *)
(* underlying provider returning S, a failing file write makes Retrieve     *)
(* return S itself together with the write error, after a single call of    *)
(* the underlying provider.                                                 *)
(***************************************************************************)
C8_WriteFailure ==
    (RanRetrieve /\ last.env # "" /\ last.fileBefore = NoFile
       /\ last.got.called /\ last.got.err = "nil"
       /\ \E i \in 1..Len(last.trace) : last.trace[i] = Ev("ioutil.WriteFile", "ErrWrite")) =>
        /\ last.val = last.got.val
        /\ last.fetch = "ErrWrite"
        /\ Count(last.trace, "f.Creds.Get") = 1

\* a Retrieve whose write failed and that still returned the snapshot
C8_Witness ==
    /\ last.op = "Retrieve" /\ last.env # "" /\ last.fileBefore = NoFile
    /\ last.err = "ErrWrite" /\ last.val \in Snapshots

(***************************************************************************)
(* C9  Nested errors are logged: when the eager fetch fails, every nested   *)
(* provider error is written to the log before the consolidated error is    *)
(* returned.                                                                *)
(***************************************************************************)
C9_NestedErrorsLogged ==
    (Startup /\ last.err = ErrCredentials) =>
        \A n \in last.nested :
            \E i \in 1..Len(last.trace) :
                /\ last.trace[i].e = "return"
                /\ Before(last.trace, Ev("logger.Warning", n), i)

(***************************************************************************)
(* C10  NewDriver checks the region first: with a region that fails the     *)
(* validity check, the empty one included, NewDriver returns an error and   *)
(* a nil driver and has constructed no session, retrieved no credentials,   *)
(* touched no cache file and invoked no service constructor.                *)
(***************************************************************************)
C10_NewDriverRegionFirst ==
    (last.op = "NewDriver" /\ ~IsValidRegion(last.region)) =>
        /\ last.err = "ErrInvalidRegion"
        /\ last.driver = NoDriver
        /\ last.sess = NoSession
        /\ last.trace = <<Ev("awsconfig.IsValidRegion", last.region)>>
        /\ credFolder = last.dirBefore
        /\ credFile = last.fileBefore
        /\ ~panicked

\* NewDriver rejected a region that is not empty and not valid
C10_Witness ==
    /\ last.op = "NewDriver" /\ last.region = "not-a-real-region"
    /\ last.err = "ErrInvalidRegion"

(***************************************************************************)
(* C11  NewDriver leaves the registry alone: no NewDriver call, successful  *)
(* or failed, changes the service registry or any of the nine package-level *)
(* service variables; the registry and the variables change only in a       *)
(* successful InitServices, which makes them a function of the registry     *)
(* before that call and of the services that call built, so that after any  *)
(* interleaving of the two the registry is the one the InitServices calls   *)
(* alone produce.                                                           *)
(***************************************************************************)
C11_NewDriverFrame ==
    [][ /\ (calls' # calls /\ last'.op = "NewDriver") =>
              UNCHANGED <<ServiceRegistry, Services, inits>>
        /\ (<<ServiceRegistry, Services>>' # <<ServiceRegistry, Services>>) =>
              /\ last'.op = "InitServices" /\ last'.err = "nil"
              /\ inits' = inits + 1
              /\ Services' = Build(last'.sess, calls')
              /\ ServiceRegistry' = Register(ServiceRegistry, Services', 1)
      ]_vars

\* a successful NewDriver after a successful InitServices: the registry still
\* holds the nine services of the InitServices call
C11_Witness ==
    /\ last.op = "NewDriver" /\ last.err = "nil" /\ last.driver # NoDriver
    /\ calls = 2 /\ inits = 1
    /\ Cardinality(DOMAIN ServiceRegistry) = 9
    /\ \A n \in DOMAIN ServiceRegistry : ServiceRegistry[n].gen = 1
    /\ \A k \in KindSet : Services[k].gen = 1

(***************************************************************************)
(* C12  Stale snapshot served: with the cache root set and a readable,      *)
(* valid cache file, Retrieve returns the decoded content of the file       *)
(* without error and calls neither f.Creds.Get() nor f.Creds.IsExpired();   *)
(* the same file gives the same result, and leaves f.Creds as it is, for    *)
(* every state of f.Creds and every answer the provider chain could give.   *)
(***************************************************************************)
C12_StaleSnapshotServed ==
    (RanRetrieve /\ last.env # "" /\ ValidFile(last.fileBefore)) =>
        /\ last.fetch = "nil"
        /\ last.val = Unmarshal(last.fileBefore).val
        /\ ~last.got.called
        /\ ~Has(last.trace, "f.Creds.Get")
        /\ ~Has(last.trace, "f.Creds.IsExpired")
        /\ credFile = last.fileBefore
        /\ \A c \in CredsStates, chain \in ChainOutcomes, wr \in WriteOutcomes :
              LET r == Retrieve(last.env, c, last.dirBefore, last.fileBefore, TRUE, chain, wr)
              IN  r.val = last.val /\ r.err = "nil" /\ r.creds = c /\ ~r.got.called

\* a Retrieve served from the file although f.Creds holds other credentials
\* that have expired
C12_Witness ==
    /\ last.op = "Retrieve" /\ last.env # "" /\ ValidFile(last.fileBefore)
    /\ last.credsBefore.expired /\ last.credsBefore.val \in Snapshots
    /\ last.val # last.credsBefore.val
    /\ last.err = "nil"

(***************************************************************************)
(* C13  Cache file lifecycle: the cache file comes into existence only in   *)
(* an operation whose Retrieve ran with the cache root set, found no file   *)
(* and got a snapshot without error from f.Creds.Get(); once the file       *)
(* exists no Retrieve, IsExpired, InitServices or NewDriver removes it or   *)
(* changes its content.                                                     *)
(***************************************************************************)
C13_CacheFileLifecycle ==
    [][ /\ credFile # NoFile => credFile' = credFile
        /\ (credFile = NoFile /\ credFile' # NoFile) =>
              /\ Has(last'.trace, "os.Getenv")
              /\ last'.env # ""
              /\ last'.fileBefore = NoFile
              /\ last'.got.called /\ last'.got.err = "nil"
              /\ Has(last'.trace, "ioutil.WriteFile")
      ]_vars

\* the file written by the first operation is still there, unchanged, after
\* a start-up that read it
C13_Witness ==
    /\ calls = 2 /\ stored.set
    /\ last.op = "InitServices" /\ last.err = "nil"
    /\ last.fileBefore = Marshal(stored.val)
    /\ credFile = last.fileBefore

(***************************************************************************)
(* C14  Unlocked cache file: nothing excludes one process from the cache    *)
(* file while another is between looking for it and having written it.  A   *)
(* process inside Retrieve can always take its next step, whatever the      *)
(* other process is doing; one that saw the file absent can still open and  *)
(* empty the file after the other has created it, and one that saw the file *)
(* present reads it even while the other has opened it and not written it.  *)
(* So there are runs in which both processes see the file absent, both call *)
(* their provider and both write the file, and in which one process reads   *)
(* the file that the other has only partly written and gets a decode error. *)
(***************************************************************************)
C14_UnlockedCacheFile ==
    \A p \in Procs :
        /\ procs[p].pc # "idle" => ENABLED Step(p)
        /\ (procs[p].pc = "open" /\ credFolder) => ENABLED (OpenFile(p) /\ credFile' = <<>>)
        /\ procs[p].pc = "read" => ENABLED ReadFile(p)

\* both processes saw the file absent, called their provider and wrote the
\* file; one of them, in its next Retrieve, read the file while the other had
\* opened it and not written it yet, and got a decode error
C14_Witness ==
    /\ \A p \in Procs : "wrote" \in procs[p].seen
    /\ \E p \in Procs :
          /\ "torn" \in procs[p].seen
          /\ procs[p].pc = "idle" /\ procs[p].err = "ErrDecode"

(***************************************************************************)
(* C15  Directory-creation failure is logged and non-fatal: when Retrieve   *)
(* runs with the cache root set, finds no credentials directory and fails   *)
(* to create it, it logs that failure, goes on to call f.Creds.Get(), and   *)
(* does not return the error of the directory creation.                     *)
(***************************************************************************)
C15_MkdirFailureLogged ==
    (RanRetrieve /\ last.env # "" /\ ~last.dirBefore
       /\ \E i \in 1..Len(last.trace) : last.trace[i] = Ev("os.MkdirAll", "ErrMkdir")) =>
        /\ \E i \in 1..Len(last.trace) :
              /\ last.trace[i].e \notin FsCalls
              /\ last.trace[i].d = "ErrMkdir"
              /\ Before(last.trace, Ev("os.MkdirAll", "ErrMkdir"), i)
        /\ Has(last.trace, "f.Creds.Get")
        /\ last.got.called
        /\ last.fetch # "ErrMkdir"

(***************************************************************************)
(* C16  InitServices is all-or-nothing on failure: an InitServices that     *)
(* ends with an error, for an empty region or a failed bootstrap, leaves    *)
(* the registry and the nine package-level service variables exactly as     *)
(* they were, has invoked no service constructor and has no session; the    *)
(* entries of an earlier successful call stay complete.                     *)
(***************************************************************************)
C16_InitServicesAllOrNothing ==
    [][ (calls' # calls /\ last'.op = "InitServices" /\ last'.err # "nil") =>
            /\ UNCHANGED <<ServiceRegistry, Services, inits>>
            /\ \A i \in 1..Len(last'.trace) : last'.trace[i].e \notin ConstructorNames
            /\ last'.sess = NoSession
            /\ inits >= 1 =>
                  /\ Cardinality(DOMAIN ServiceRegistry') = 9
                  /\ \A n \in DOMAIN ServiceRegistry' :
                        ServiceRegistry'[n] = Services'[ServiceRegistry'[n].kind]
      ]_vars

\* a re-initialization whose bootstrap failed, after a successful one whose
\* nine entries are still registered
C16_Witness ==
    /\ last.op = "InitServices" /\ last.err = ErrCredentials
    /\ calls = 2 /\ inits = 1
    /\ Cardinality(DOMAIN ServiceRegistry) = 9
    /\ \A n \in DOMAIN ServiceRegistry :
          ServiceRegistry[n].gen = 1 /\ ServiceRegistry[n] = Services[ServiceRegistry[n].kind]

(***************************************************************************)
(* C17  Session-construction failure is returned as an error: when          *)
(* session.NewSessionWithOptions fails, the start-up gets that error back,  *)
(* no field of the absent session is read or written, the credential       *)
(* source is not replaced, and the process does not crash.                  *)
(***************************************************************************)
C17_SessionFailureReturned ==
    (Startup /\ \E i \in 1..Len(last.trace) :
                    /\ last.trace[i].e = "session.NewSessionWithOptions"
                    /\ last.trace[i].d # "nil") =>
        /\ ~panicked
        /\ last.err = "ErrSession"
        /\ last.sess = NoSession
        /\ ~Has(last.trace, "panic")
        /\ ~Has(last.trace, "credentials.NewCredentials")
        /\ ~Has(last.trace, "session.Config.Credentials.Get")

(***************************************************************************)
(* C18  Bootstrap fails exactly when the eager fetch returns an error: a    *)
(* start-up that ran the eager fetch has a session if and only if           *)
(* FileCacheProvider.Retrieve returned no error to it, and a session is     *)
(* never returned without that fetch; every error of Retrieve, from the     *)
(* provider, from reading or decoding the cache file, or from writing it    *)
(* after the provider succeeded, ends the bootstrap in Failed with the one  *)
(* consolidated credentials error, no session and no driver.                *)
(***************************************************************************)
C18_BootstrapFailsIffFetchFails ==
    /\ (Startup /\ Has(last.trace, "session.Config.Credentials.Get")) =>
          /\ RanRetrieve
          /\ \E i \in 1..Len(last.trace) : last.trace[i] = Ev("Get.return", last.fetch)
          /\ (last.fetch = "nil") <=> (last.sess # NoSession)
          /\ (last.fetch = "nil") <=> (last.err = "nil")
          /\ last.fetch # "nil" =>
                /\ last.err = ErrCredentials
                /\ last.sess = NoSession
                /\ last.driver = NoDriver
                /\ Phases(last.trace) = <<"Unvalidated", "Validating", "Failed">>
                /\ last.trace[Len(last.trace)] = Ev("return", ErrCredentials)
    /\ (Startup /\ last.sess # NoSession) =>
          /\ Has(last.trace, "session.Config.Credentials.Get")
          /\ last.fetch = "nil"

\* a start-up whose provider returned a snapshot and whose cache write
\* failed: the bootstrap ends with the consolidated error
C18_Witness ==
    /\ Startup /\ last.err = ErrCredentials
    /\ last.fetch = "ErrWrite"
    /\ last.got.called /\ last.got.err = "nil" /\ last.got.val \in Snapshots
    /\ last.sess = NoSession

====
